---- MODULE Spec2Model ----
(***************************************************************************)
(* KPI calculator of the DMFC / battery dashboard                          *)
(* (kpi_calculator_version2.py) and the main calculation path of the       *)
(* dashboard script (FC_battery_dashboard_Clean.py, lines 37-108).         *)
(*                                                                         *)
(* Numbers are exact rationals [kind |-> "num", n, d] in lowest terms with *)
(* d > 0.  float('inf') is the value Inf, a raised ZeroDivisionError is    *)
(* the outcome ZeroDivisionError.  Hours are counted in half hours where   *)
(* they are widget positions (the slider step is 0.5).                     *)
(***************************************************************************)
EXTENDS Integers, Sequences, FiniteSets, TLC

VARIABLES
    \* ---- one call of a calculator function ----
    appliances,          \* the appliance list handed to the calculator
    a1, a2, a3,          \* the numeric arguments at hand
    fn,                  \* the function that was called ("none" before a call)
    args,                \* the arguments it was called with
    res,                 \* what the call ended in
    \* ---- the dashboard script ----
    scenario,            \* st.sidebar.selectbox("Select Load Scenario")
    tank_option,         \* st.sidebar.selectbox("Select Methanol Tank")
    slider,              \* the positions of the hour sliders, in half hours
    kpi                  \* the variables the script computes in lines 41 and 100-108

calcVars == <<appliances, a1, a2, a3, fn, args, res>>
dashVars == <<scenario, tank_option, slider, kpi>>
vars == <<appliances, a1, a2, a3, fn, args, res, scenario, tank_option, slider, kpi>>

-----------------------------------------------------------------------------
(* Exact arithmetic                                                        *)

Abs(i) == IF i < 0 THEN -i ELSE i

RECURSIVE GCD(_, _)
GCD(a, b) == IF b = 0 THEN a ELSE GCD(b, a % b)

\* the greatest common divisor, 1 for Gcd(0, 0)
Gcd(a, b) ==
    IF a = 1 \/ b = 1 THEN 1
    ELSE IF a = 0 /\ b = 0 THEN 1
    ELSE GCD(Abs(a), Abs(b))

\* the rational n/d (d # 0) in lowest terms, denominator positive
Rat(n, d) ==
    LET g == Gcd(n, d)
        s == IF d < 0 THEN -1 ELSE 1
    IN  [kind |-> "num", n |-> s * (n \div g), d |-> s * (d \div g)]

Int2Rat(i) == [kind |-> "num", n |-> i, d |-> 1]
Zero == Int2Rat(0)

\* float('inf')
Inf == [kind |-> "inf", n |-> 1, d |-> 0]

\* the call ended in an unhandled ZeroDivisionError
ZeroDivisionError == [kind |-> "ZeroDivisionError", n |-> 0, d |-> 0]

IsNum(x) == x.kind = "num"
IsInf(x) == x.kind = "inf"
Raised(x) == x.kind = "ZeroDivisionError"

Add(x, y) ==
    LET g == Gcd(x.d, y.d)
    IN  Rat(x.n * (y.d \div g) + y.n * (x.d \div g), (x.d \div g) * y.d)

Sub(x, y) == Add(x, [y EXCEPT !.n = -y.n])

\* cross-cancelled: the product of two numbers in lowest terms is then in
\* lowest terms, and no intermediate value is larger than the result
Mul(x, y) ==
    LET g1 == Gcd(x.n, y.d)
        g2 == Gcd(y.n, x.d)
    IN  [kind |-> "num",
         n |-> (x.n \div g1) * (y.n \div g2),
         d |-> (x.d \div g2) * (y.d \div g1)]

\* Python's x / y on numbers: a zero divisor raises ZeroDivisionError
Div(x, y) ==
    IF y.n = 0 THEN ZeroDivisionError
    ELSE Mul(x, [kind |-> "num", n |-> y.d, d |-> y.n])

\* order on numbers and infinity (Inf is above every number)
Lt(x, y) ==
    IF IsInf(x) THEN FALSE
    ELSE IF IsInf(y) THEN TRUE
    ELSE x.n * y.d < y.n * x.d

Le(x, y) == x = y \/ Lt(x, y)

Min(x, y) == IF Lt(y, x) THEN y ELSE x
Max(x, y) == IF Lt(x, y) THEN y ELSE x

\* Python's round(x, 1): to one decimal place, ties to the even digit.  (A
\* float decides a tie by the binary value it holds; the peak powers drawn
\* below have no tie that a float decides the other way.)
Round1(x) ==
    LET t == Mul(x, Int2Rat(10))
        q == t.n \div t.d
        r == t.n % t.d
        k == IF 2 * r < t.d THEN q
             ELSE IF 2 * r > t.d THEN q + 1
             ELSE IF q % 2 = 0 THEN q ELSE q + 1
    IN  Rat(k, 10)

-----------------------------------------------------------------------------
(* Constants, kpi_calculator_version2.py lines 5-12                        *)

METHANOL_CONSUMPTION_PER_KWH == Rat(9, 10)
BATTERY_CAPACITY_AH == 105
BATTERY_VOLTAGE == Rat(128, 10)
BATTERY_CAPACITY_WH == Mul(Int2Rat(BATTERY_CAPACITY_AH), BATTERY_VOLTAGE)
FUEL_CELL_OUTPUT_W == 125
METHANOL_ENERGY_DENSITY == Div(Rat(55, 10), Int2Rat(5))
BATTERY_EFFICIENCY == Rat(90, 100)

\* the 200 A peak battery limit of peak_load_coverage
PeakCurrentLimit == 200

-----------------------------------------------------------------------------
(* The calculator functions.  An appliance is a record                     *)
(* [name, power, hours] with power and hours numbers.                      *)

\* sum(app['power'] * app['hours'] for app in appliances): a left fold from 0
RECURSIVE SumFrom(_, _, _)
SumFrom(acc, apps, i) ==
    IF i > Len(apps) THEN acc
    ELSE SumFrom(Add(acc, Mul(apps[i].power, apps[i].hours)), apps, i + 1)

\* mutant: the fold starts at the second appliance
calculate_daily_energy_demand_skips_first(apps) == SumFrom(Zero, apps, 2)

calculate_daily_energy_demand(apps) == SumFrom(Zero, apps, 1)

calculate_methanol_consumption(energy_wh) ==
    Mul(Div(energy_wh, Int2Rat(1000)), METHANOL_CONSUMPTION_PER_KWH)

\* mutant: the zero guard is missing
calculate_tank_autonomy_unguarded(liters_available, daily_consumption_l) ==
    Div(liters_available, daily_consumption_l)

\* mutant: the quotient is taken the wrong way round
calculate_tank_autonomy_swapped(liters_available, daily_consumption_l) ==
    IF daily_consumption_l = Zero THEN Inf
    ELSE Div(daily_consumption_l, liters_available)

calculate_tank_autonomy(liters_available, daily_consumption_l) ==
    IF daily_consumption_l = Zero THEN Inf
    ELSE Div(liters_available, daily_consumption_l)

\* mutant: the zero guard returns 0, as the efficiency functions do
battery_discharge_time_zero_policy(energy_wh) ==
    IF energy_wh = Zero THEN Zero
    ELSE Mul(Div(BATTERY_CAPACITY_WH, energy_wh), Int2Rat(24))

\* mutant: the conversion to hours is missing
battery_discharge_time_in_days(energy_wh) ==
    IF energy_wh = Zero THEN Inf
    ELSE Div(BATTERY_CAPACITY_WH, energy_wh)

\* mutant: the ratio is taken the wrong way round
battery_discharge_time_inverted(energy_wh) ==
    IF energy_wh = Zero THEN Inf
    ELSE Mul(Div(energy_wh, BATTERY_CAPACITY_WH), Int2Rat(24))

battery_discharge_time(energy_wh) ==
    IF energy_wh = Zero THEN Inf
    ELSE Mul(Div(BATTERY_CAPACITY_WH, energy_wh), Int2Rat(24))

fuel_cell_efficiency(useful_energy_kwh, methanol_used_l) ==
    IF methanol_used_l = Zero THEN Zero
    ELSE LET chemical_energy == Mul(methanol_used_l, METHANOL_ENERGY_DENSITY)
         IN  Div(useful_energy_kwh, chemical_energy)

\* mutant: the result is not rounded
peak_load_coverage_unrounded(peak_power_w) ==
    LET peak_current == Div(peak_power_w, BATTERY_VOLTAGE)
    IN  IF Le(peak_current, Int2Rat(PeakCurrentLimit)) THEN Int2Rat(100)
        ELSE Mul(Div(Mul(Int2Rat(PeakCurrentLimit), BATTERY_VOLTAGE), peak_power_w),
                 Int2Rat(100))

peak_load_coverage(peak_power_w) ==
    LET peak_current == Div(peak_power_w, BATTERY_VOLTAGE)
    IN  IF Le(peak_current, Int2Rat(PeakCurrentLimit)) THEN Int2Rat(100)
        ELSE Round1(Mul(Div(Mul(Int2Rat(PeakCurrentLimit), BATTERY_VOLTAGE),
                            peak_power_w),
                        Int2Rat(100)))

\* mutant: the battery's round-trip loss is left out
global_system_efficiency_lossless(battery_energy_wh, fuel_cell_energy_wh, methanol_used_l) ==
    IF methanol_used_l = Zero THEN Zero
    ELSE Div(Div(fuel_cell_energy_wh, Int2Rat(1000)),
             Mul(methanol_used_l, METHANOL_ENERGY_DENSITY))

\* mutant: the energy taken from the battery is counted, not the fuel cell's
global_system_efficiency_of_battery(battery_energy_wh, fuel_cell_energy_wh, methanol_used_l) ==
    IF methanol_used_l = Zero THEN Zero
    ELSE Div(Mul(Div(battery_energy_wh, Int2Rat(1000)), BATTERY_EFFICIENCY),
             Mul(methanol_used_l, METHANOL_ENERGY_DENSITY))

global_system_efficiency(battery_energy_wh, fuel_cell_energy_wh, methanol_used_l) ==
    IF methanol_used_l = Zero THEN Zero
    ELSE LET net_energy_kwh ==
                 Mul(Div(fuel_cell_energy_wh, Int2Rat(1000)), BATTERY_EFFICIENCY)
             chemical_energy_kwh == Mul(methanol_used_l, METHANOL_ENERGY_DENSITY)
         IN  Div(net_energy_kwh, chemical_energy_kwh)

battery_charge_time_needed(energy_to_charge_wh, fuel_cell_output_w) ==
    Div(energy_to_charge_wh, fuel_cell_output_w)

\* mutant: the zero guard returns infinity, as the autonomy functions do
system_efficiency_infinite(energy_delivered_kwh, methanol_liters) ==
    IF methanol_liters = Zero THEN Inf
    ELSE Div(energy_delivered_kwh, Mul(methanol_liters, METHANOL_ENERGY_DENSITY))

system_efficiency(energy_delivered_kwh, methanol_liters) ==
    IF methanol_liters = Zero THEN Zero
    ELSE LET chemical_energy_kwh == Mul(methanol_liters, METHANOL_ENERGY_DENSITY)
         IN  Div(energy_delivered_kwh, chemical_energy_kwh)

-----------------------------------------------------------------------------
(* Calls of the calculator: the inputs are drawn at the start, every       *)
(* function can be applied to them, in any order and any number of times.  *)

\* longest appliance list handed to the calculator
MaxApps == 2

Names == {"Laptop", "Radio"}
Powers == {Int2Rat(0), Int2Rat(50), Int2Rat(100)}
HourValues == {Int2Rat(0), Rat(1, 2), Int2Rat(2), Int2Rat(4)}
Appliance == [name : Names, power : Powers, hours : HourValues]

ApplianceLists == UNION {[1..n -> Appliance] : n \in 0..MaxApps}

\* energies, litres and powers handed to the numeric functions
Nums == {Int2Rat(0), Rat(1, 2), Int2Rat(2), Int2Rat(10), Int2Rat(1000),
         BATTERY_CAPACITY_WH, Int2Rat(3000)}

\* peak powers around the 200 A limit and far above it
PeakPowers == {Int2Rat(0), Int2Rat(2400), Int2Rat(2560), Int2Rat(2561),
               Int2Rat(3000), Int2Rat(8192), Int2Rat(5119999),
               Int2Rat(5120001), Int2Rat(6000000)}

NoDash ==
    /\ scenario = "none"
    /\ tank_option = <<>>
    /\ slider = <<>>
    /\ kpi = [daily_demand_wh |-> Zero]

InitCalc ==
    /\ \/ /\ appliances \in ApplianceLists
          /\ a1 = Zero /\ a2 = Zero /\ a3 = Zero
       \/ /\ appliances = <<>>
          /\ a1 \in Nums /\ a2 \in Nums /\ a3 \in Nums
       \/ /\ appliances = <<>>
          /\ a1 \in PeakPowers /\ a2 = Zero /\ a3 = Zero
    /\ fn = "none"
    /\ args = <<>>
    /\ res = Zero
    /\ NoDash

Called(f, as, r) ==
    /\ fn' = f
    /\ args' = as
    /\ res' = r
    /\ UNCHANGED <<appliances, a1, a2, a3>>
    /\ UNCHANGED dashVars

CallDailyEnergyDemand ==
    Called("calculate_daily_energy_demand", <<>>,
           calculate_daily_energy_demand(appliances))

CallMethanolConsumption ==
    Called("calculate_methanol_consumption", <<a1>>,
           calculate_methanol_consumption(a1))

CallTankAutonomy ==
    Called("calculate_tank_autonomy", <<a1, a2>>, calculate_tank_autonomy(a1, a2))

CallBatteryDischargeTime ==
    Called("battery_discharge_time", <<a1>>, battery_discharge_time(a1))

CallFuelCellEfficiency ==
    Called("fuel_cell_efficiency", <<a1, a2>>, fuel_cell_efficiency(a1, a2))

CallPeakLoadCoverage ==
    Called("peak_load_coverage", <<a1>>, peak_load_coverage(a1))

CallGlobalSystemEfficiency ==
    Called("global_system_efficiency", <<a1, a2, a3>>,
           global_system_efficiency(a1, a2, a3))

\* called with one argument, fuel_cell_output_w takes its default
CallBatteryChargeTimeDefault ==
    Called("battery_charge_time_needed", <<a1, Int2Rat(FUEL_CELL_OUTPUT_W)>>,
           battery_charge_time_needed(a1, Int2Rat(FUEL_CELL_OUTPUT_W)))

CallBatteryChargeTime ==
    Called("battery_charge_time_needed", <<a1, a2>>,
           battery_charge_time_needed(a1, a2))

CallSystemEfficiency ==
    Called("system_efficiency", <<a1, a2>>, system_efficiency(a1, a2))

NextCalc ==
    \/ CallDailyEnergyDemand
    \/ CallMethanolConsumption
    \/ CallTankAutonomy
    \/ CallBatteryDischargeTime
    \/ CallFuelCellEfficiency
    \/ CallPeakLoadCoverage
    \/ CallGlobalSystemEfficiency
    \/ CallBatteryChargeTimeDefault
    \/ CallBatteryChargeTime
    \/ CallSystemEfficiency

Spec == InitCalc /\ [][NextCalc]_vars

-----------------------------------------------------------------------------
(* The dashboard script.  Streamlit runs it from top to bottom at the      *)
(* start and again after every change of a widget; the widgets return      *)
(* their current values.                                                   *)

\* option strings are sequences of characters
Scenarios == {"Base 500 W", "Moderate 750 W", "Peak 1000 W"}

TankOptions ==
    { <<"M", "5", " ", "-", " ", "5", " ", "L">>,
      <<"M", "1", "0", " ", "-", " ", "1", "0", " ", "L">>,
      <<"M", "2", "0", " ", "-", " ", "2", "0", " ", "L">> }

\* str.split(sep)
RECURSIVE SplitFrom(_, _, _, _)
SplitFrom(s, sep, i, cur) ==
    IF i > Len(s) THEN <<cur>>
    ELSE IF s[i] = sep THEN <<cur>> \o SplitFrom(s, sep, i + 1, <<>>)
    ELSE SplitFrom(s, sep, i + 1, Append(cur, s[i]))

Split(s, sep) == SplitFrom(s, sep, 1, <<>>)

\* str.strip()
RECURSIVE Strip(_)
Strip(s) ==
    IF s = <<>> THEN s
    ELSE IF Head(s) = " " THEN Strip(Tail(s))
    ELSE IF s[Len(s)] = " " THEN Strip(SubSeq(s, 1, Len(s) - 1))
    ELSE s

Digits == <<"0", "1", "2", "3", "4", "5", "6", "7", "8", "9">>

\* int(s) of a string of decimal digits
RECURSIVE ParseInt(_)
ParseInt(s) ==
    IF s = <<>> THEN 0
    ELSE 10 * ParseInt(SubSeq(s, 1, Len(s) - 1))
         + (CHOOSE k \in 0..9 : Digits[k + 1] = s[Len(s)])

\* int(tank_option.split('-')[1].strip().split(' ')[0])
TankLiters(option) == ParseInt(Split(Strip(Split(option, "-")[2]), " ")[1])

\* an appliance of a scenario: its power in W and its default hours, in half hours
App(name, power, halfHours) == [name |-> name, power |-> power, hours |-> halfHours]

ScenarioAppliances(s) ==
    IF s = "Base 500 W" THEN
        << App("Laptop (230 V)", 95, 8),
           App("Led Lighting (12 V)", 15, 12),
           App("Cool box (12 V)", 60, 16),
           App("Smartphone (2 chargers)", 25, 4),
           App("Electric kettle (12 V)", 300, 1),
           App("Radio (12 V)", 5, 6) >>
    ELSE IF s = "Moderate 750 W" THEN
        << App("Laptop (230 V)", 95, 8),
           App("Led Lighting (12 V)", 15, 12),
           App("Cool box (12 V)", 60, 16),
           App("Bed warmer (12 V)", 240, 6),
           App("Smartphone (3 chargers)", 35, 4),
           App("Electric kettle (12 V)", 300, 1),
           App("Radio (12 V)", 5, 6) >>
    ELSE
        << App("Laptop (230 V)", 95, 8),
           App("Led Lighting (12 V)", 15, 12),
           App("Cool box (12 V)", 60, 16),
           App("Fan Heater (12 V)", 490, 4),
           App("Smartphone (3 chargers)", 35, 4),
           App("Electric kettle (12 V)", 300, 1),
           App("Radio (12 V)", 5, 6) >>

\* the slider runs from 0.0 to 24.0 in steps of 0.5: positions 0..48
SliderMaxHalfHours == 48

DefaultSliders(s) ==
    [i \in 1..Len(ScenarioAppliances(s)) |-> ScenarioAppliances(s)[i].hours]

SliderPositions == 0..SliderMaxHalfHours

\* the positions the sliders are moved to here: the two ends and the default
SliderStops(s, i) == {0, ScenarioAppliances(s)[i].hours, SliderMaxHalfHours}

\* lines 74-78: the list handed to the calculator
CustomAppliances(s, pos) ==
    LET apps == ScenarioAppliances(s)
    IN  [i \in 1..Len(apps) |->
            [name  |-> apps[i].name,
             power |-> Int2Rat(apps[i].power),
             hours |-> Rat(pos[i], 2)]]

\* lines 41 and 100-108: one run of the script on the widgets' values
MainCalculations(s, option, pos) ==
    LET tank == TankLiters(option)
        custom_appliances == CustomAppliances(s, pos)
        daily_demand_wh == calculate_daily_energy_demand(custom_appliances)
        methanol_per_day == calculate_methanol_consumption(daily_demand_wh)
        autonomy_days == calculate_tank_autonomy(Int2Rat(tank), methanol_per_day)
        battery_hours == battery_discharge_time(daily_demand_wh)
        battery_energy_wh == Min(BATTERY_CAPACITY_WH, daily_demand_wh)
        fuel_cell_energy_wh == Max(Zero, Sub(daily_demand_wh, BATTERY_CAPACITY_WH))
        efficiency_pct ==
            global_system_efficiency(battery_energy_wh, fuel_cell_energy_wh,
                                     methanol_per_day)
        battery_deficit == Max(Zero, Sub(daily_demand_wh, BATTERY_CAPACITY_WH))
        charge_time ==
            battery_charge_time_needed(battery_deficit, Int2Rat(FUEL_CELL_OUTPUT_W))
    IN  [tank_liters         |-> tank,
         daily_demand_wh     |-> daily_demand_wh,
         methanol_per_day    |-> methanol_per_day,
         autonomy_days       |-> autonomy_days,
         battery_hours       |-> battery_hours,
         battery_energy_wh   |-> battery_energy_wh,
         fuel_cell_energy_wh |-> fuel_cell_energy_wh,
         efficiency_pct      |-> efficiency_pct,
         battery_deficit     |-> battery_deficit,
         charge_time         |-> charge_time]

NoCall ==
    /\ appliances = <<>>
    /\ a1 = Zero /\ a2 = Zero /\ a3 = Zero
    /\ fn = "none"
    /\ args = <<>>
    /\ res = Zero

\* the first run: every selectbox shows its first option, every slider its default
InitDash ==
    /\ scenario = "Base 500 W"
    /\ tank_option = <<"M", "5", " ", "-", " ", "5", " ", "L">>
    /\ slider = DefaultSliders(scenario)
    /\ kpi = MainCalculations(scenario, tank_option, slider)
    /\ NoCall

\* the sliders of scenario s after a change from scenario old: a slider with
\* the label and default of one that was shown keeps that one's position
\* (Streamlit identifies a widget without a key by its label and
\* parameters), every other slider starts at its default
KeptSliders(old, pos, s) ==
    LET was == ScenarioAppliances(old)
        now == ScenarioAppliances(s)
        Same(i, j) == was[i].name = now[j].name /\ was[i].hours = now[j].hours
    IN  [j \in 1..Len(now) |->
            IF \E i \in 1..Len(was) : Same(i, j)
            THEN pos[CHOOSE i \in 1..Len(was) : Same(i, j)]
            ELSE now[j].hours]

\* another load scenario is selected and the script runs again
SelectScenario(s) ==
    /\ s # scenario
    /\ scenario' = s
    /\ slider' = KeptSliders(scenario, slider, s)
    /\ kpi' = MainCalculations(s, tank_option, slider')
    /\ UNCHANGED tank_option
    /\ UNCHANGED calcVars

\* another methanol tank is selected and the script runs again
SelectTank(t) ==
    /\ t # tank_option
    /\ tank_option' = t
    /\ kpi' = MainCalculations(scenario, t, slider)
    /\ UNCHANGED <<scenario, slider>>
    /\ UNCHANGED calcVars

\* slider i is moved to position p and the script runs again
MoveSlider(i, p) ==
    /\ i \in DOMAIN slider
    /\ p \in SliderPositions
    /\ p # slider[i]
    /\ slider' = [slider EXCEPT ![i] = p]
    /\ kpi' = MainCalculations(scenario, tank_option, slider')
    /\ UNCHANGED <<scenario, tank_option>>
    /\ UNCHANGED calcVars

NextDash ==
    \/ \E s \in Scenarios : SelectScenario(s)
    \/ \E t \in TankOptions : SelectTank(t)
    \/ \E i \in DOMAIN slider : \E p \in SliderStops(scenario, i) : MoveSlider(i, p)

SpecDash == InitDash /\ [][NextDash]_vars

-----------------------------------------------------------------------------
(* Properties of the calculator functions, checked under Spec              *)

CalledFn(f) == fn = f

\* a defined numeric result: a number that is not negative, or infinity
Defined(x) == IsInf(x) \/ (IsNum(x) /\ x.d > 0 /\ x.n >= 0)

\* C1 as stated: whatever calculator function is called on non-negative
\* arguments, zero included, the call ends in a defined numeric result and
\* never in an error.
C1_NeverRaises == fn # "none" => (~Raised(res) /\ Defined(res))

\* C1, amended: a call raises exactly when it is battery_charge_time_needed
\* with fuel_cell_output_w = 0 (its one unguarded division); every other call,
\* the default fuel-cell output included, ends in a defined numeric result.
C1_RaisesOnlyOnZeroOutput ==
    fn # "none" =>
        /\ Raised(res) <=> (fn = "battery_charge_time_needed" /\ args[2] = Zero)
        /\ ~Raised(res) => Defined(res)

\* a guarded function is called on a zero denominator and ends in a result
C1_Witness ==
    /\ fn = "battery_discharge_time"
    /\ args[1] = Zero
    /\ Defined(res)

\* C2 as stated: tank autonomy at zero consumption, battery discharge time
\* at zero energy and battery charge time at zero deficit (default fuel-cell
\* output) are each positive infinity.
C2_ZeroGivesInfinity ==
    /\ (fn = "calculate_tank_autonomy" /\ args[2] = Zero) => res = Inf
    /\ (fn = "battery_discharge_time" /\ args[1] = Zero) => res = Inf
    /\ (fn = "battery_charge_time_needed" /\ args[1] = Zero
            /\ args[2] = Int2Rat(FUEL_CELL_OUTPUT_W)) => res = Inf

\* C2, amended: tank autonomy at zero consumption and battery discharge time
\* at zero energy are positive infinity; battery charge time at zero deficit
\* (default fuel-cell output) is 0.
C2_ZeroDeficitChargesInNoTime ==
    /\ (fn = "calculate_tank_autonomy" /\ args[2] = Zero) => res = Inf
    /\ (fn = "battery_discharge_time" /\ args[1] = Zero) => res = Inf
    /\ (fn = "battery_charge_time_needed" /\ args[1] = Zero
            /\ args[2] = Int2Rat(FUEL_CELL_OUTPUT_W)) => res = Zero

C2_Witness ==
    /\ fn = "battery_charge_time_needed"
    /\ args = <<Zero, Int2Rat(FUEL_CELL_OUTPUT_W)>>
    /\ res = Zero

\* the sum of power x hours, taken from the end of the list
RECURSIVE SumOfProducts(_)
SumOfProducts(apps) ==
    IF apps = <<>> THEN Zero
    ELSE Add(SumOfProducts(SubSeq(apps, 1, Len(apps) - 1)),
             Mul(apps[Len(apps)].hours, apps[Len(apps)].power))

Orderings(n) ==
    {f \in [1..n -> 1..n] : \A i, j \in 1..n : f[i] = f[j] => i = j}

\* C3: calculate_daily_energy_demand is the sum of power x hours over the
\* list, 0 for the empty list, never negative, and the same for every order
\* of the appliances and every choice of their names.
C3_DemandIsSumOfProducts ==
    fn = "calculate_daily_energy_demand" =>
        /\ res = SumOfProducts(appliances)
        /\ appliances = <<>> => res = Zero
        /\ IsNum(res) /\ Le(Zero, res)
        /\ \A f \in Orderings(Len(appliances)) :
               calculate_daily_energy_demand(
                   [i \in 1..Len(appliances) |-> appliances[f[i]]]) = res
        /\ \A nm \in [1..Len(appliances) -> Names] :
               calculate_daily_energy_demand(
                   [i \in 1..Len(appliances) |->
                       [appliances[i] EXCEPT !.name = nm[i]]]) = res

\* the list of the example: 100 W for 2 h and 50 W for 4 h give 400 Wh
C3_Witness ==
    /\ fn = "calculate_daily_energy_demand"
    /\ Len(appliances) = 2
    /\ appliances[1].power = Int2Rat(100) /\ appliances[1].hours = Int2Rat(2)
    /\ appliances[2].power = Int2Rat(50) /\ appliances[2].hours = Int2Rat(4)
    /\ res = Int2Rat(400)

\* C4: calculate_tank_autonomy is positive infinity at zero consumption, for
\* every tank content, and otherwise the quotient liters / consumption
\* (10 L at 2 L/day: 5 days).
C4_TankAutonomy ==
    fn = "calculate_tank_autonomy" =>
        /\ args[2] = Zero => res = Inf
        /\ args[2] # Zero => (IsNum(res) /\ Mul(res, args[2]) = args[1])
        /\ args = <<Int2Rat(10), Int2Rat(2)>> => res = Int2Rat(5)

C4_Witness ==
    /\ fn = "calculate_tank_autonomy"
    /\ args = <<Int2Rat(10), Int2Rat(2)>>
    /\ res = Int2Rat(5)

\* C5: battery_discharge_time is positive infinity at zero energy and
\* otherwise BATTERY_CAPACITY_WH / energy x 24 with BATTERY_CAPACITY_WH =
\* 105 Ah x 12.8 V; it is 24 at the battery capacity and, for positive
\* energy, strictly smaller at every larger energy.
C5_BatteryDischargeTime ==
    fn = "battery_discharge_time" =>
        /\ BATTERY_CAPACITY_WH = Int2Rat(1344)
        /\ args[1] = Zero => res = Inf
        /\ args[1] # Zero =>
              /\ IsNum(res)
              /\ Mul(res, args[1]) = Int2Rat(1344 * 24)
              /\ \A e \in Nums :
                     Lt(args[1], e) => Lt(battery_discharge_time(e), res)
        /\ args[1] = BATTERY_CAPACITY_WH => res = Int2Rat(24)

C5_Witness ==
    /\ fn = "battery_discharge_time"
    /\ args[1] = BATTERY_CAPACITY_WH
    /\ res = Int2Rat(24)

EfficiencyFunctions ==
    {"fuel_cell_efficiency", "global_system_efficiency", "system_efficiency"}

\* C6: the three efficiency functions return 0 when their methanol argument
\* (the last one) is 0, whatever the other arguments; the autonomy and
\* discharge functions return infinity on their zero denominator.
C6_ZeroMethanolGivesZero ==
    /\ (fn \in EfficiencyFunctions /\ args[Len(args)] = Zero) => res = Zero
    /\ (fn = "calculate_tank_autonomy" /\ args[2] = Zero) => res = Inf
    /\ (fn = "battery_discharge_time" /\ args[1] = Zero) => res = Inf

C6_Witness ==
    /\ fn = "system_efficiency"
    /\ args[1] # Zero
    /\ args[2] = Zero
    /\ res = Zero

\* C7: for methanol_used_l > 0, global_system_efficiency is
\* ((fuel_cell_energy_wh / 1000) x 0.9) / (methanol_used_l x 1.1): it is 0 at
\* fuel_cell_energy_wh = 0 and the same for every battery_energy_wh.
C7_GlobalSystemEfficiency ==
    (fn = "global_system_efficiency" /\ Lt(Zero, args[3])) =>
        /\ IsNum(res)
        /\ Mul(Mul(res, args[3]), Int2Rat(11000)) = Mul(args[2], Int2Rat(9))
        /\ args[2] = Zero => res = Zero
        /\ \A x \in Nums : global_system_efficiency(x, args[2], args[3]) = res

C7_Witness ==
    /\ fn = "global_system_efficiency"
    /\ args = <<Int2Rat(10), Int2Rat(1000), Int2Rat(2)>>
    /\ res = Rat(9, 22)

\* the exact percentage 200 x 12.8 / peak_power_w x 100
ExactCoverage(p) == Rat(256000 * p.d, p.n)

\* x lies within 1/20 of the number r of tenths
NearestTenth(r, x) ==
    /\ IsNum(r)
    /\ Mul(r, Int2Rat(10)).d = 1
    /\ Le(Sub(x, r), Rat(1, 20))
    /\ Le(Sub(r, x), Rat(1, 20))

PeakInputs == PeakPowers \cup Nums

PeakCoverageRule ==
    /\ Le(args[1], Int2Rat(2560)) => res = Int2Rat(100)
    /\ Lt(Int2Rat(2560), args[1]) => NearestTenth(res, ExactCoverage(args[1]))
    /\ args[1] = Int2Rat(3000) => res = Rat(853, 10)
    /\ \A q \in PeakInputs : Lt(args[1], q) => Le(peak_load_coverage(q), res)

\* C8 as stated: peak_load_coverage is 100.0 up to 2560 W (0 W included) and
\* above it 256000 / peak_power_w rounded to one decimal place (85.3 at
\* 3000 W); the result lies in (0, 100] and never increases with the power.
C8_CoverageInOpenZeroToHundred ==
    fn = "peak_load_coverage" =>
        /\ PeakCoverageRule
        /\ Lt(Zero, res) /\ Le(res, Int2Rat(100))

\* C8, amended: as stated, except that the result lies in [0, 100]: the
\* rounding gives 0.0 for every peak_power_w above 5,120,000 W.
C8_CoverageInClosedZeroToHundred ==
    fn = "peak_load_coverage" =>
        /\ PeakCoverageRule
        /\ Le(Zero, res) /\ Le(res, Int2Rat(100))
        /\ Lt(Int2Rat(5120000), args[1]) => res = Zero

C8_Witness ==
    /\ fn = "peak_load_coverage"
    /\ args[1] = Int2Rat(5120001)
    /\ res = Zero

TankSizes == {Int2Rat(5), Int2Rat(10), Int2Rat(20)}

\* the list with the hours of appliance i set to h
WithHours(apps, i, h) == [apps EXCEPT ![i].hours = h]

\* C9: raising the hours of one appliance never lowers the daily demand nor
\* the methanol consumption derived from it, and never raises the tank
\* autonomy or the battery discharge time derived from it.
C9_MoreHoursMoreDemand ==
    fn = "calculate_daily_energy_demand" =>
        \A i \in 1..Len(appliances) : \A h \in HourValues :
            Lt(appliances[i].hours, h) =>
                LET more == calculate_daily_energy_demand(WithHours(appliances, i, h))
                IN  /\ Le(res, more)
                    /\ Le(calculate_methanol_consumption(res),
                          calculate_methanol_consumption(more))
                    /\ Le(battery_discharge_time(more), battery_discharge_time(res))
                    /\ \A l \in TankSizes :
                           Le(calculate_tank_autonomy(
                                  l, calculate_methanol_consumption(more)),
                              calculate_tank_autonomy(
                                  l, calculate_methanol_consumption(res)))

\* a demand that rises strictly when the hours of the first appliance do
C9_Witness ==
    /\ fn = "calculate_daily_energy_demand"
    /\ Len(appliances) = 2
    /\ appliances[1].hours = Int2Rat(2)
    /\ Lt(Zero, res)
    /\ Lt(res, calculate_daily_energy_demand(WithHours(appliances, 1, Int2Rat(4))))

-----------------------------------------------------------------------------
(* Properties of the dashboard's main calculations, checked under SpecDash *)

KpiValues ==
    {kpi.daily_demand_wh, kpi.methanol_per_day, kpi.autonomy_days,
     kpi.battery_hours, kpi.battery_energy_wh, kpi.fuel_cell_energy_wh,
     kpi.efficiency_pct, kpi.battery_deficit, kpi.charge_time}

\* C10: after every run of the script the battery and fuel-cell shares add
\* up to the daily demand, every KPI is a non-negative number or infinity,
\* efficiency and charge time are 0 exactly when the demand is at most the
\* battery capacity, and the efficiency is otherwise strictly between 0 and 1.
C10_MainCalculations ==
    /\ Add(kpi.battery_energy_wh, kpi.fuel_cell_energy_wh) = kpi.daily_demand_wh
    /\ \A v \in KpiValues : Defined(v)
    /\ kpi.efficiency_pct = Zero <=> Le(kpi.daily_demand_wh, BATTERY_CAPACITY_WH)
    /\ kpi.charge_time = Zero <=> Le(kpi.daily_demand_wh, BATTERY_CAPACITY_WH)
    /\ Lt(BATTERY_CAPACITY_WH, kpi.daily_demand_wh) =>
           (Lt(Zero, kpi.efficiency_pct) /\ Lt(kpi.efficiency_pct, Int2Rat(1)))

\* the Base scenario with a slider raised until the fuel cell has to run
C10_Witness ==
    /\ scenario = "Base 500 W"
    /\ slider # DefaultSliders(scenario)
    /\ Lt(BATTERY_CAPACITY_WH, kpi.daily_demand_wh)
    /\ Lt(Zero, kpi.charge_time)
    /\ Lt(Zero, kpi.efficiency_pct)

====
